---- MODULE Spec2Model ----
(***************************************************************************)
(* Model of the fiftyone app's client-side state layer:                    *)
(*   - viewBarMachine (xstate): the bar of view stages and its actors      *)
(*   - the recoil selectors selectedLabels (get/set)                       *)
(*   - the useSetView hook: commit mutation and its recoil transaction     *)
(*   - the recoil selectors anyTagging, targets/getTarget and fiftyone     *)
(*   - the AttributeColorSetting component: color pairs and their pickers  *)
(***************************************************************************)
EXTENDS Integers, Sequences, FiniteSets, TLC

VARIABLES
    state,        \* viewBarMachine: "initializing" | "running"
    stages,       \* viewBarMachine context.stages
    stageInfo,    \* viewBarMachine context.stageInfo
    invoke,       \* the invoked getStageInfo promise: "pending" | "done" | "failed"
    actors,       \* spawned viewStageMachine actors: ref -> actor context
    last,         \* the event the bar processed last, and how it ended
    stateDescription, \* atoms.stateDescription
    socket,       \* messages handed to socket.send, oldest first
    labelsRead,   \* what the last read of selectedLabels returned
    labelsOp,     \* the last operation on selectedLabels
    root,         \* atoms.view / viewCls / sampleFields / frameFields
    inflight,     \* commit mutations sent and not yet answered
    issued,       \* number of commits issued so far
    viewOp,       \* the last step of useSetView
    handled,      \* errors handed to onError, by commit number
    tagging,      \* atoms.tagging({modal, labels}): <<modal, labels>> -> flag
    tagRead,      \* what the last read of anyTagging returned
    tagOp,        \* the last operation on the tagging flags
    dataset,      \* atoms.stateDescription.dataset, as targets reads it
    looked,       \* the last call of the function getTarget returned
    poll,         \* the fiftyone selector's get: position, response, fetches
    labelColors,  \* tempColorSetting.labelColors: the rows
    showPicker,   \* AttributeColorSetting's showPicker state
    pickerOf,     \* the rows whose picker the user has open
    rowsMade,     \* how many rows have existed so far
    colorOp       \* the last operation on AttributeColorSetting

barVars == <<state, stages, stageInfo, invoke, actors, last>>
labelVars == <<stateDescription, socket, labelsRead, labelsOp>>
viewVars == <<root, inflight, issued, viewOp, handled>>
selVars == <<tagging, tagRead, tagOp, dataset, looked, poll>>
colorVars == <<labelColors, showPicker, pickerOf, rowsMade, colorOp>>
vars == <<state, stages, stageInfo, invoke, actors, last,
          stateDescription, socket, labelsRead, labelsOp,
          root, inflight, issued, viewOp, handled,
          tagging, tagRead, tagOp, dataset, looked, poll,
          labelColors, showPicker, pickerOf, rowsMade, colorOp>>

----------------------------------------------------------------------------
(* Bounds *)

MaxSpawn == 2        \* actors spawned over one run of the bar
MaxInitStages == 1   \* stage names a bar is constructed with

----------------------------------------------------------------------------
(* Values *)

undefined == "undefined"
NoRef == 0                      \* `undefined` where an actor address is expected
Catalog == "match,limit"        \* event.data.stages of a successful fetch
\* what a stage actor's draft can hold: a stage name and its parameters
Drafts == {[stage |-> "", parameters |-> <<>>],
           [stage |-> "match", parameters |-> <<"filter">>]}

Min(a, b) == IF a < b THEN a ELSE b

\* Array.prototype.slice(from, to) and slice(from), 0-based, on a sequence
slice(s, from, to) == SubSeq(s, Min(from, Len(s)) + 1, Min(to, Len(s)))
sliceFrom(s, from) == SubSeq(s, Min(from, Len(s)) + 1, Len(s))

\* an entry of context.stages that is still a bare stage name (a JS string)
RawStage(name) == [str |-> name]
IsRaw(s) == "str" \in DOMAIN s

\* property reads on a list entry; a string has neither .id nor .ref
IdOf(s) == IF IsRaw(s) THEN NoRef ELSE s.id
RefOf(s) == IF IsRaw(s) THEN NoRef ELSE s.ref

\* the next uuid / actor address
NextRef == Cardinality(DOMAIN actors) + 1

createStage(id, stage, index, info, focusOnInit, hideDelete) ==
    [id |-> id, submitted |-> FALSE, stage |-> stage, parameters |-> <<>>,
     stageInfo |-> info, index |-> index, focusOnInit |-> focusOnInit,
     hideDelete |-> hideDelete]

\* { ...newStage, ref }
withRef(s, ref) ==
    [id |-> s.id, submitted |-> s.submitted, stage |-> s.stage,
     parameters |-> s.parameters, stageInfo |-> s.stageInfo,
     index |-> s.index, focusOnInit |-> s.focusOnInit,
     hideDelete |-> s.hideDelete, ref |-> ref]

\* spawn(viewStageMachine.withContext(newStage)): a new actor at address ref
spawn(acts, ref, ctx) == [r \in DOMAIN acts \cup {ref} |-> IF r = ref THEN ctx ELSE acts[r]]

createBar == [stages |-> <<>>, stageInfo |-> undefined]

----------------------------------------------------------------------------
(* viewBarMachine *)

NoEvent == [type |-> "none", index |-> 0, from |-> NoRef, threw |-> FALSE]
Event(type, index, from, threw) ==
    [type |-> type, index |-> index, from |-> from, threw |-> threw]

\* initializing.invoke.onDone, the `stages` assigner: the else branch reads the
\* identifier `stages`, which nothing in the module declares (ReferenceError)
onDoneThrows(stgs) == Len(stgs) # 0
onDoneStages_noSeed(stgs) == stgs
onDoneStages(stgs) == <<RawStage("")>>

\* running.entry: ctx.stages.map((stage, i) => ...), one uuid and one spawn per entry
RECURSIVE runningEntryStages(_, _, _, _)
runningEntryStages(stgs, info, base, i) ==
    IF i > Len(stgs) THEN <<>>
    ELSE <<withRef(createStage(base + i - 1, stgs[i].str, i - 1, info, FALSE, TRUE),
                   base + i - 1)>>
         \o runningEntryStages(stgs, info, base, i + 1)

RECURSIVE runningEntryActors(_, _, _, _, _)
runningEntryActors(acts, stgs, info, base, i) ==
    IF i > Len(stgs) THEN acts
    ELSE runningEntryActors(
             spawn(acts, base + i - 1,
                   createStage(base + i - 1, stgs[i].str, i - 1, info, FALSE, TRUE)),
             stgs, info, base, i + 1)

\* on["STAGE.ADD"].actions[0]: the assigned stages
addStages(stgs, info, ref, e) ==
    slice(stgs, 0, e.index)
    \o <<withRef(createStage(ref, "", e.index, info, TRUE, FALSE), ref)>>
    \o sliceFrom(stgs, e.index)

\* on["STAGE.COMMIT"]: newStages[e.stage.index].ref is read first
commitThrows(stgs, e) == e.stage.index + 1 > Len(stgs)
commitStages_dropRef(stgs, e) ==
    [stgs EXCEPT ![e.stage.index + 1] = withRef(e.stage, NoRef)]
commitStages(stgs, e) ==
    [stgs EXCEPT ![e.stage.index + 1] = withRef(e.stage, RefOf(stgs[e.stage.index + 1]))]

\* on["STAGE.DELETE"].actions[0]: the assigned stages
deleteStages(stgs, e) ==
    IF Len(stgs) = 1
    THEN <<withRef([e.stage EXCEPT !.hideDelete = TRUE], RefOf(stgs[1]))>>
    ELSE SelectSeq(stgs, LAMBDA stage : IdOf(stage) # e.stage.id)

\* the send(...) expressions: the event object they build from the new context;
\* stages[0].ref throws on an empty list
sendThrows(stgs) == Len(stgs) = 0
addSendEvent(stgs) ==
    [type |-> "STAGE.SET_HIDE_DELETE", hideDelete |-> FALSE, to |-> RefOf(stgs[1])]
deleteSendEvent(stgs) ==
    [type |-> "STAGE.SET_HIDE_DELETE", hideDelete |-> Len(stgs) = 1, to |-> RefOf(stgs[1])]

\* send(expr) is called with one argument: no options, hence no `to` target.
\* xstate delivers such an event to the sending machine itself; the `to` key
\* inside the event object is payload only.
sendTarget(ev) == NoRef

\* viewStageMachine on STAGE.SET_HIDE_DELETE: updates its own flag only
setHideDelete(ctx, ev) == [ctx EXCEPT !.hideDelete = ev.hideDelete]

\* delivery of a sent event: viewBarMachine itself has no transition for
\* STAGE.SET_HIDE_DELETE, so an event addressed to it is dropped
deliver(acts, target, ev) ==
    IF target = NoRef \/ target \notin DOMAIN acts THEN acts
    ELSE [acts EXCEPT ![target] = setHideDelete(acts[target], ev)]

\* refs of the actors the bar currently lists
ListedRefs == {RefOf(stages[i]) : i \in 1..Len(stages)} \ {NoRef}

\* the machine started on createBar(port)
BarInit ==
    /\ state = "initializing"
    /\ stages = createBar.stages
    /\ stageInfo = createBar.stageInfo
    /\ invoke = "pending"
    /\ actors = <<>>
    /\ last = NoEvent

\* the machine started on a context that already names stages
BarInitNamed ==
    /\ state = "initializing"
    /\ \E n \in 1..MaxInitStages : stages \in [1..n -> {RawStage("match")}]
    /\ stageInfo = createBar.stageInfo
    /\ invoke = "pending"
    /\ actors = <<>>
    /\ last = NoEvent

\* getStageInfo resolves: initializing.invoke.onDone, then running.entry
FetchDone ==
    /\ state = "initializing" /\ invoke = "pending"
    /\ invoke' = "done"
    /\ IF onDoneThrows(stages)
       THEN /\ UNCHANGED <<state, stages, stageInfo, actors>>
            /\ last' = Event("done.invoke", 0, NoRef, TRUE)
       ELSE /\ Len(onDoneStages(stages)) + NextRef - 1 <= MaxSpawn
            /\ state' = "running"
            /\ stageInfo' = Catalog
            /\ stages' = runningEntryStages(onDoneStages(stages), Catalog, NextRef, 1)
            /\ actors' = runningEntryActors(actors, onDoneStages(stages), Catalog, NextRef, 1)
            /\ last' = Event("done.invoke", 0, NoRef, FALSE)
    /\ UNCHANGED <<labelVars, viewVars, selVars, colorVars>>

\* the state after error.platform: the invoke declares no onError, so the
\* event selects no transition
errorPlatformTarget_running(st) == "running"
errorPlatformTarget(st) == st

\* getStageInfo rejects
FetchFail ==
    /\ state = "initializing" /\ invoke = "pending"
    /\ invoke' = "failed"
    /\ state' = errorPlatformTarget(state)
    /\ last' = Event("error.platform", 0, NoRef, FALSE)
    /\ UNCHANGED <<stages, stageInfo, actors>>
    /\ UNCHANGED <<labelVars, viewVars, selVars, colorVars>>

\* STAGE.ADD {index}, from the view bar's add control
StageAdd(index) ==
    /\ NextRef <= MaxSpawn
    /\ LET e == [index |-> index]
           ref == NextRef
           newStages == addStages(stages, stageInfo, ref, e)
           spawned == spawn(actors, ref, createStage(ref, "", e.index, stageInfo, TRUE, FALSE))
           ev == addSendEvent(newStages)
       IN /\ stages' = newStages
          /\ actors' = deliver(spawned, sendTarget(ev), ev)
          /\ last' = Event("STAGE.ADD", index, NoRef, FALSE)
    /\ UNCHANGED <<state, stageInfo, invoke>>
    /\ UNCHANGED <<labelVars, viewVars, selVars, colorVars>>

\* handling of STAGE.COMMIT {stage} by the bar, acts being the actors after
\* the sender's own step
HandleCommit(acts, from) ==
    LET e == [stage |-> acts[from]]
    IN IF commitThrows(stages, e)
       THEN /\ stages' = stages
            /\ last' = Event("STAGE.COMMIT", e.stage.index, from, TRUE)
       ELSE /\ stages' = commitStages(stages, e)
            /\ last' = Event("STAGE.COMMIT", e.stage.index, from, FALSE)

\* handling of STAGE.DELETE {stage} by the bar
HandleDelete(acts, from) ==
    LET e == [stage |-> acts[from]]
        newStages == deleteStages(stages, e)
    IN IF sendThrows(newStages)
       THEN /\ stages' = stages
            /\ actors' = acts
            /\ last' = Event("STAGE.DELETE", e.stage.index, from, TRUE)
       ELSE /\ stages' = newStages
            /\ actors' = deliver(acts, sendTarget(deleteSendEvent(newStages)),
                                 deleteSendEvent(newStages))
            /\ last' = Event("STAGE.DELETE", e.stage.index, from, FALSE)

\* viewStageMachine on a parameter edit: a new local draft
edit(ctx, draft) == [ctx EXCEPT !.stage = draft.stage, !.parameters = draft.parameters]

\* a stage actor takes a local edit, not yet sent to the bar
StageEdit(ref, draft) ==
    /\ ref \in ListedRefs
    /\ actors[ref].stage # draft.stage
    /\ actors' = [actors EXCEPT ![ref] = edit(actors[ref], draft)]
    /\ last' = Event("edit", 0, NoRef, FALSE)
    /\ UNCHANGED <<state, stages, stageInfo, invoke>>
    /\ UNCHANGED <<labelVars, viewVars, selVars, colorVars>>

\* viewStageMachine on submit: the draft is marked submitted before it is sent
submit(ctx) == [ctx EXCEPT !.submitted = TRUE]

\* a stage actor submits: sendParent STAGE.COMMIT with its current draft
StageCommit(ref) ==
    /\ ref \in ListedRefs
    /\ actors' = [actors EXCEPT ![ref] = submit(actors[ref])]
    /\ HandleCommit(actors', ref)
    /\ UNCHANGED <<state, stageInfo, invoke>>
    /\ UNCHANGED <<labelVars, viewVars, selVars, colorVars>>

\* a stage actor is asked to go: sendParent STAGE.DELETE with its context
StageDelete(ref) ==
    /\ ref \in ListedRefs
    /\ HandleDelete(actors, ref)
    /\ UNCHANGED <<state, stageInfo, invoke>>
    /\ UNCHANGED <<labelVars, viewVars, selVars, colorVars>>

----------------------------------------------------------------------------
(* selectors: selectedLabels *)

MaxSocket == 2       \* messages kept in the socket's log

\* JS objects are functions from their own keys to values
EmptyObj == [k \in {} |-> 0]
Has(o, k) == k \in DOMAIN o
\* { ...o, [key]: v }
Spread(o, key, v) == [k \in DOMAIN o \cup {key} |-> IF k = key THEN v ELSE o[k]]

LabelIds == <<"a", "b">>     \* the label ids in use, in insertion order
LabelIdSet == {LabelIds[i] : i \in 1..Len(LabelIds)}
FieldNames == {"gt", "pred"}

\* a label record as the server lists it in stateDescription.selectedLabels
ServerLabel(id, field) == [k \in {"labelId", "field"} |-> IF k = "labelId" THEN id ELSE field]
ServerLabels == {ServerLabel(id, "gt") : id \in LabelIdSet}
ServerLists == UNION {[1..n -> ServerLabels] : n \in 0..2}

\* the values of a SelectedLabelMap: label data, with or without its labelId
LabelData(id) ==
    {[k \in {"field"} |-> f] : f \in FieldNames} \cup {ServerLabel(id, f) : f \in FieldNames}
LabelMaps ==
    UNION {{m \in [ks -> UNION {LabelData(id) : id \in ks}] :
               \A id \in ks : m[id] \in LabelData(id)} : ks \in SUBSET LabelIdSet}

\* Object.entries(o) / Object.keys(o) in insertion order
Keys(o) == SelectSeq(LabelIds, LAMBDA k : k \in DOMAIN o)

\* Object.fromEntries(labels.map((l) => [l.labelId, l])): a later entry wins,
\* a record without labelId is keyed "undefined"
KeyOf(l) == IF Has(l, "labelId") THEN l["labelId"] ELSE undefined
RECURSIVE fromEntries(_, _)
fromEntries(labels, i) ==
    IF i = 0 THEN EmptyObj
    ELSE Spread(fromEntries(labels, i - 1), KeyOf(labels[i]), labels[i])

\* selectedLabels.get
selectedLabelsGet(sd) ==
    LET labels == IF Has(sd, "selectedLabels") THEN sd["selectedLabels"] ELSE <<>>
    IN fromEntries(labels, Len(labels))

\* selectedLabels.set: Object.entries(value).map(([label_id, label]) => ({...label, label_id}))
serializeLabels(value) ==
    [i \in 1..Len(Keys(value)) |-> Spread(value[Keys(value)[i]], "label_id", Keys(value)[i])]
selectedLabelsSetState(sd, value) == Spread(sd, "selected_labels", serializeLabels(value))
packageMessage(type, args) == [type |-> type, args |-> args]
selectedLabelsSetMessage_idsOnly(value) ==
    packageMessage("set_selected_labels",
        [selected_labels |-> [i \in 1..Len(Keys(value)) |->
                                 [k \in {"label_id"} |-> Keys(value)[i]]]])
selectedLabelsSetMessage(value) ==
    packageMessage("set_selected_labels", [selected_labels |-> serializeLabels(value)])

LabelsInit ==
    /\ stateDescription \in
         {EmptyObj} \cup {[k \in {"selectedLabels"} |-> l] : l \in ServerLists}
    /\ socket = <<>>
    /\ labelsRead = EmptyObj
    /\ labelsOp = [op |-> "none", wrote |-> FALSE, written |-> EmptyObj]

\* a component writes the mapping through the selector
WriteSelectedLabels(value) ==
    /\ Len(socket) < MaxSocket
    /\ stateDescription' = selectedLabelsSetState(stateDescription, value)
    /\ socket' = Append(socket, selectedLabelsSetMessage(value))
    /\ labelsOp' = [op |-> "set", wrote |-> TRUE, written |-> value]
    /\ UNCHANGED labelsRead
    /\ UNCHANGED <<barVars, viewVars, selVars, colorVars>>

\* a component reads the selector
ReadSelectedLabels ==
    /\ labelsRead' = selectedLabelsGet(stateDescription)
    /\ labelsOp' = [labelsOp EXCEPT !.op = "get"]
    /\ UNCHANGED <<stateDescription, socket>>
    /\ UNCHANGED <<barVars, viewVars, selVars, colorVars>>

----------------------------------------------------------------------------
(* useSetView *)

MaxCommits == 3      \* commits issued through one useSetView callback

ViewStages == {"s1", "s2"}
\* viewOrUpdater: an explicit stage list, or an updater over the current view
ExplicitViews == {<<>>} \cup {<<s>> : s \in ViewStages}
Updaters == {[append |-> s] : s \in ViewStages}
applyUpdater(u, current) == Append(current, u.append)

\* collapseFields(schema), imported from "../": kept as an opaque application
collapseFields(fields) == [collapsed |-> fields]

\* the server's answer to commit number n for the view it was sent
Response(n, v) ==
    [view |-> [of |-> n, stages |-> v],
     viewCls |-> [of |-> n, cls |-> "fiftyone.core.view.DatasetView"],
     sampleFields |-> [of |-> n, schema |-> "sample"],
     frameFields |-> [of |-> n, schema |-> "frame"]]

\* the transaction body: four set() calls on the transaction's draft
set(draft, atom, value) == [draft EXCEPT ![atom] = value]
setter_noViewCls(snapshot, args) ==
    set(set(set(snapshot, "sampleFields", args.sampleFields),
            "frameFields", args.frameFields),
        "view", args.view)
setter(snapshot, args) ==
    set(set(set(set(snapshot, "viewCls", args.viewCls),
                "sampleFields", args.sampleFields),
            "frameFields", args.frameFields),
        "view", args.view)

\* onCompleted: destructures the response and runs the transaction
onCompleted(snapshot, response) ==
    setter(snapshot,
           [viewCls |-> response.viewCls,
            view |-> response.view,
            frameFields |-> collapseFields(response.frameFields),
            sampleFields |-> collapseFields(response.sampleFields)])

ViewInit ==
    /\ root = [view |-> Response(0, <<>>).view,
               viewCls |-> Response(0, <<>>).viewCls,
               sampleFields |-> collapseFields(Response(0, <<>>).sampleFields),
               frameFields |-> collapseFields(Response(0, <<>>).frameFields)]
    /\ inflight = {}
    /\ issued = 0
    /\ viewOp = [op |-> "none", n |-> 0]
    /\ handled = {}

\* the callback is called with an explicit view
SetViewExplicit(v) ==
    /\ issued < MaxCommits
    /\ issued' = issued + 1
    /\ inflight' = inflight \cup {[n |-> issued + 1, view |-> v]}
    /\ viewOp' = [op |-> "commit", n |-> issued + 1]
    /\ UNCHANGED <<root, handled>>
    /\ UNCHANGED <<barVars, labelVars, selVars, colorVars>>

\* the callback is called with an updater: applied to the snapshot's view
SetViewUpdater(u) ==
    /\ issued < MaxCommits
    /\ issued' = issued + 1
    /\ inflight' = inflight \cup
         {[n |-> issued + 1, view |-> applyUpdater(u, root.view.stages)]}
    /\ viewOp' = [op |-> "commit-updater", n |-> issued + 1]
    /\ UNCHANGED <<root, handled>>
    /\ UNCHANGED <<barVars, labelVars, selVars, colorVars>>

\* the mutation completes: onCompleted
CommitCompleted(req) ==
    /\ req \in inflight
    /\ inflight' = inflight \ {req}
    /\ root' = onCompleted(root, Response(req.n, req.view))
    /\ viewOp' = [op |-> "completed", n |-> req.n]
    /\ UNCHANGED <<issued, handled>>
    /\ UNCHANGED <<barVars, labelVars, selVars, colorVars>>

\* onError: the handler of useErrorHandler receives the error
onError(errors, n) == errors \cup {n}

\* what is in flight once a commit has failed: nothing is sent again
afterError_retry(reqs, req) == reqs
afterError(reqs, req) == reqs \ {req}

\* the mutation fails: onError, the handler of react-error-boundary
CommitError(req) ==
    /\ req \in inflight
    /\ inflight' = afterError(inflight, req)
    /\ handled' = onError(handled, req.n)
    /\ viewOp' = [op |-> "error", n |-> req.n]
    /\ UNCHANGED <<root, issued>>
    /\ UNCHANGED <<barVars, labelVars, selVars, colorVars>>

----------------------------------------------------------------------------
(* selectors: fiftyone, targets / getTarget, anyTagging *)

MaxFetches == 3      \* fetches one evaluation of the fiftyone selector issues

RetryDelayMs == 2000
JsonNull == "null"           \* JS null
EmptyString == ""            \* a falsy value that is not null
Metadata == {"{teams: {}}", "{teams: {submitted: true}}"}
\* what one `await (await fetch(...)).json()` ends in: a thrown error or a value
FetchOutcomes == {"throw", JsonNull, EmptyString} \cup Metadata

\* JS truthiness of a response
Truthy(v) == v \notin {JsonNull, EmptyString}

\* the try block: the assignment happens only if nothing was thrown
tryFetch(response, outcome) == IF outcome = "throw" THEN response ELSE outcome
\* if (response) break;
breaks(response) == Truthy(response)
\* while (response === null)
loopsAgain(response) == response = JsonNull

PollInit ==
    poll = [pc |-> "fetch", response |-> JsonNull, fetches |-> 0, waited |-> 0,
            outcome |-> "none"]

\* one pass of the loop body up to the break
FiftyoneFetch(outcome) ==
    /\ poll.pc = "fetch" /\ poll.fetches < MaxFetches
    /\ poll' = [pc |-> IF breaks(tryFetch(poll.response, outcome)) THEN "done" ELSE "sleep",
                response |-> tryFetch(poll.response, outcome),
                fetches |-> poll.fetches + 1,
                waited |-> poll.waited,
                outcome |-> outcome]
    /\ UNCHANGED <<tagging, tagRead, tagOp, dataset, looked>>
    /\ UNCHANGED <<barVars, labelVars, viewVars, colorVars>>

\* the timeout fires, then the loop condition is tested
FiftyoneWake ==
    /\ poll.pc = "sleep"
    /\ poll' = [poll EXCEPT !.pc = IF loopsAgain(poll.response) THEN "fetch" ELSE "done",
                            !.waited = poll.waited + RetryDelayMs,
                            !.outcome = "timeout"]
    /\ UNCHANGED <<tagging, tagRead, tagOp, dataset, looked>>
    /\ UNCHANGED <<barVars, labelVars, viewVars, colorVars>>

\* mask targets: target id -> label, per field and dataset-wide
TargetIds == {"1", "2"}
MaskTargets == {EmptyObj, [k \in {"1"} |-> "cat"], [k \in {"1", "2"} |-> IF k = "1" THEN "road" ELSE "sky"]}
FieldPaths == {"seg", "depth"}
FieldTargets == {EmptyObj} \cup {[k \in {"seg"} |-> m] : m \in MaskTargets}
\* stateDescription.dataset with or without defaultMaskTargets / maskTargets
Datasets ==
    {EmptyObj}
    \cup {[k \in {"defaultMaskTargets"} |-> m] : m \in MaskTargets}
    \cup {[k \in {"maskTargets"} |-> f] : f \in FieldTargets}
    \cup {[k \in {"defaultMaskTargets", "maskTargets"} |->
              IF k = "maskTargets" THEN f ELSE m] : m \in MaskTargets, f \in FieldTargets}

\* o[k] on a JS object
Prop(o, k) == IF Has(o, k) THEN o[k] ELSE undefined

\* targets.get: { defaults, fields }, each `|| {}`
targets(ds) ==
    [defaults |-> IF Has(ds, "defaultMaskTargets") THEN ds["defaultMaskTargets"] ELSE EmptyObj,
     fields |-> IF Has(ds, "maskTargets") THEN ds["maskTargets"] ELSE EmptyObj]

\* the function getTarget.get returns
getTarget_defaultsFirst(ds, field, target) ==
    IF Has(targets(ds).defaults, target) THEN targets(ds).defaults[target]
    ELSE IF Has(targets(ds).fields, field) THEN Prop(targets(ds).fields[field], target)
    ELSE undefined
getTarget(ds, field, target) ==
    IF Has(targets(ds).fields, field)
    THEN Prop(targets(ds).fields[field], target)
    ELSE Prop(targets(ds).defaults, target)

\* a caller looks a target up
LookupTarget(field, target) ==
    /\ looked' = [field |-> field, target |-> target,
                  result |-> getTarget(dataset, field, target)]
    /\ UNCHANGED <<tagging, tagRead, tagOp, dataset, poll>>
    /\ UNCHANGED <<barVars, labelVars, viewVars, colorVars>>

\* the four atoms.tagging({modal, labels})
TaggingKeys == {<<i, j>> : i \in {TRUE, FALSE}, j \in {TRUE, FALSE}}

\* anyTagging.get: values.some((v) => v)
anyTaggingGet(t) == \E i \in {TRUE, FALSE} : \E j \in {TRUE, FALSE} : t[<<i, j>>]
\* anyTagging.set: set(atoms.tagging({modal: i, labels: j}), value) for all i, j
anyTaggingSet_modalOnly(t, value) ==
    [k \in DOMAIN t |-> IF k[1] THEN value ELSE t[k]]
anyTaggingSet(t, value) ==
    [k \in DOMAIN t |-> IF k[1] \in {TRUE, FALSE} /\ k[2] \in {TRUE, FALSE} THEN value ELSE t[k]]

WriteAnyTagging(value) ==
    /\ tagging' = anyTaggingSet(tagging, value)
    /\ tagOp' = [op |-> "set", value |-> value]
    /\ UNCHANGED <<tagRead, dataset, looked, poll>>
    /\ UNCHANGED <<barVars, labelVars, viewVars, colorVars>>

ReadAnyTagging ==
    /\ tagRead' = anyTaggingGet(tagging)
    /\ tagOp' = [tagOp EXCEPT !.op = "get"]
    /\ UNCHANGED <<tagging, dataset, looked, poll>>
    /\ UNCHANGED <<barVars, labelVars, viewVars, colorVars>>

SelInit ==
    /\ tagging \in [TaggingKeys -> BOOLEAN]
    /\ tagRead = FALSE
    /\ tagOp = [op |-> "none", value |-> FALSE]
    /\ dataset \in Datasets
    /\ looked = [field |-> "", target |-> "", result |-> undefined]
    /\ PollInit

----------------------------------------------------------------------------
(* AttributeColorSetting *)

MaxPairs == 3        \* rows that exist over one run of the component
MaxInitPairs == 1    \* rows of tempColor.labelColors when the component mounts

PoolColor == "#ee0000"           \* a color of coloring.pool
PickedColors == {"#00ff00"}      \* color.hex of the picker
Names == {"car"}

\* a row of labelColors; id tells rows apart in the model, the code has none
defaultValue(id) == [id |-> id, name |-> "", color |-> PoolColor]

\* Array(values?.length ?? 0).fill(false)
fill(n) == [i \in 1..n |-> FALSE]

\* newValues.splice(index, 1)
splice(s, index) == SubSeq(s, 1, index) \o SubSeq(s, index + 2, Len(s))

\* prev.map((_, i) => (i === index ? v : _))
mapAt(prev, index, v) == [i \in 1..Len(prev) |-> IF i - 1 = index THEN v ELSE prev[i]]

\* the showPicker state after handleDelete: no setShowPicker call
deleteShowPicker(flags, index) == flags

\* the rows rendered: values.map((value, index) => ...)
Rows == 0..(Len(labelColors) - 1)

ColorInit ==
    /\ \E n \in 0..MaxInitPairs :
          /\ labelColors = [i \in 1..n |-> defaultValue(i)]
          /\ showPicker = fill(n)
          /\ rowsMade = n
    /\ pickerOf = {}
    /\ colorOp = [op |-> "none", index |-> 0]

handleAdd ==
    /\ rowsMade < MaxPairs
    /\ labelColors' = Append(labelColors, defaultValue(rowsMade + 1))
    /\ showPicker' = Append(showPicker, FALSE)
    /\ rowsMade' = rowsMade + 1
    /\ colorOp' = [op |-> "add", index |-> Len(labelColors)]
    /\ UNCHANGED pickerOf
    /\ UNCHANGED <<barVars, labelVars, viewVars, selVars>>

handleDelete(index) ==
    /\ index \in Rows
    /\ labelColors' = splice(labelColors, index)
    /\ showPicker' = deleteShowPicker(showPicker, index)
    /\ pickerOf' = pickerOf \ {labelColors[index + 1].id}
    /\ colorOp' = [op |-> "delete", index |-> index]
    /\ UNCHANGED rowsMade
    /\ UNCHANGED <<barVars, labelVars, viewVars, selVars>>

\* ColorSquare onClick: the user toggles the picker of the row at index
ColorSquareClick(index) ==
    /\ index \in Rows
    /\ showPicker' = mapAt(showPicker, index, ~showPicker[index + 1])
    /\ pickerOf' = IF labelColors[index + 1].id \in pickerOf
                   THEN pickerOf \ {labelColors[index + 1].id}
                   ELSE pickerOf \cup {labelColors[index + 1].id}
    /\ colorOp' = [op |-> "click", index |-> index]
    /\ UNCHANGED <<labelColors, rowsMade>>
    /\ UNCHANGED <<barVars, labelVars, viewVars, selVars>>

\* ChromePicker onChangeComplete, on a row whose picker is rendered
hanldeColorChange(color, index) ==
    /\ index \in Rows /\ showPicker[index + 1]
    /\ showPicker' = mapAt(showPicker, index, FALSE)
    /\ labelColors' = [labelColors EXCEPT ![index + 1].color = color]
    /\ pickerOf' = pickerOf \ {labelColors[index + 1].id}
    /\ colorOp' = [op |-> "color", index |-> index]
    /\ UNCHANGED rowsMade
    /\ UNCHANGED <<barVars, labelVars, viewVars, selVars>>

\* ChromePicker onBlur, on a row whose picker is rendered
PickerBlur(index) ==
    /\ index \in Rows /\ showPicker[index + 1]
    /\ showPicker' = mapAt(showPicker, index, FALSE)
    /\ pickerOf' = pickerOf \ {labelColors[index + 1].id}
    /\ colorOp' = [op |-> "blur", index |-> index]
    /\ UNCHANGED <<labelColors, rowsMade>>
    /\ UNCHANGED <<barVars, labelVars, viewVars, selVars>>

\* the name Input of a row: handleChange(index, "name", value)
handleChange(index, value) ==
    /\ index \in Rows
    /\ labelColors' = [labelColors EXCEPT ![index + 1].name = value]
    /\ colorOp' = [op |-> "change", index |-> index]
    /\ UNCHANGED <<showPicker, pickerOf, rowsMade>>
    /\ UNCHANGED <<barVars, labelVars, viewVars, selVars>>

----------------------------------------------------------------------------
(* Specifications *)

BarIdle ==
    /\ state = "initializing" /\ stages = <<>> /\ stageInfo = undefined
    /\ invoke = "pending" /\ actors = <<>> /\ last = NoEvent
LabelsIdle ==
    /\ stateDescription = EmptyObj /\ socket = <<>>
    /\ labelsRead = EmptyObj /\ labelsOp = [op |-> "none", wrote |-> FALSE, written |-> EmptyObj]
ViewIdle ==
    /\ root = [view |-> 0, viewCls |-> 0, sampleFields |-> 0, frameFields |-> 0]
    /\ inflight = {} /\ issued = 0 /\ viewOp = [op |-> "none", n |-> 0]
    /\ handled = {}
SelIdle ==
    /\ tagging = [k \in {} |-> FALSE] /\ tagRead = FALSE
    /\ tagOp = [op |-> "none", value |-> FALSE]
    /\ dataset = EmptyObj
    /\ looked = [field |-> "", target |-> "", result |-> undefined]
    /\ poll = [pc |-> "idle", response |-> JsonNull, fetches |-> 0, waited |-> 0,
               outcome |-> "none"]
ColorIdle ==
    /\ labelColors = <<>> /\ showPicker = <<>> /\ pickerOf = {} /\ rowsMade = 0
    /\ colorOp = [op |-> "none", index |-> 0]

\* the view bar
Init == BarInit /\ LabelsIdle /\ ViewIdle /\ SelIdle /\ ColorIdle
Next ==
    \/ FetchDone
    \/ FetchFail
    \/ \E index \in 0..Len(stages) : StageAdd(index)
    \/ \E ref \in DOMAIN actors, draft \in Drafts : StageEdit(ref, draft)
    \/ \E ref \in DOMAIN actors : StageCommit(ref)
    \/ \E ref \in DOMAIN actors : StageDelete(ref)
Spec == Init /\ [][Next]_vars

\* the view bar, constructed with stage names
InitNamed == BarInitNamed /\ LabelsIdle /\ ViewIdle /\ SelIdle /\ ColorIdle
SpecNamed == InitNamed /\ [][Next]_vars

\* the selectedLabels selector
InitLabels == LabelsInit /\ BarIdle /\ ViewIdle /\ SelIdle /\ ColorIdle
NextLabels ==
    \/ \E value \in LabelMaps : WriteSelectedLabels(value)
    \/ ReadSelectedLabels
SpecLabels == InitLabels /\ [][NextLabels]_vars

\* the useSetView hook
InitView == ViewInit /\ BarIdle /\ LabelsIdle /\ SelIdle /\ ColorIdle
NextView ==
    \/ \E v \in ExplicitViews : SetViewExplicit(v)
    \/ \E u \in Updaters : SetViewUpdater(u)
    \/ \E req \in inflight : CommitCompleted(req)
    \/ \E req \in inflight : CommitError(req)
SpecView == InitView /\ [][NextView]_vars

\* the selectors fiftyone, getTarget and anyTagging
InitSel == SelInit /\ BarIdle /\ LabelsIdle /\ ViewIdle /\ ColorIdle
NextSel ==
    \/ \E outcome \in FetchOutcomes : FiftyoneFetch(outcome)
    \/ FiftyoneWake
    \/ \E field \in FieldPaths, target \in TargetIds : LookupTarget(field, target)
    \/ \E value \in BOOLEAN : WriteAnyTagging(value)
    \/ ReadAnyTagging
SpecSel == InitSel /\ [][NextSel]_vars

\* the AttributeColorSetting component
InitColor == ColorInit /\ BarIdle /\ LabelsIdle /\ ViewIdle /\ SelIdle
NextColor ==
    \/ handleAdd
    \/ \E index \in 0..(MaxPairs - 1) : handleDelete(index)
    \/ \E index \in 0..(MaxPairs - 1) : ColorSquareClick(index)
    \/ \E color \in PickedColors, index \in 0..(MaxPairs - 1) : hanldeColorChange(color, index)
    \/ \E index \in 0..(MaxPairs - 1) : PickerBlur(index)
    \/ \E index \in 0..(MaxPairs - 1), value \in Names : handleChange(index, value)
SpecColor == InitColor /\ [][NextColor]_vars

----------------------------------------------------------------------------
(* Properties *)

Running == state = "running"
Blank(s) == s.stage = "" /\ s.parameters = <<>> /\ s.submitted = FALSE
DataFields == {"id", "submitted", "stage", "parameters", "stageInfo", "index",
               "focusOnInit", "hideDelete"}

\* C1: after every STAGE.ADD or STAGE.DELETE on a running bar, each stage
\* record's index field equals its position in the list (0..n-1).
C1_IndexIsPosition ==
    (Running /\ last.type \in {"STAGE.ADD", "STAGE.DELETE"})
        => \A i \in 1..Len(stages) : stages[i].index = i - 1

\* C2: on a running bar, a sole stage has hideDelete = TRUE and, with two or
\* more stages, the first stage has hideDelete = FALSE, in the list and in the
\* first stage's actor that STAGE.SET_HIDE_DELETE is meant to reach.
C2_FirstStageHideDelete ==
    Running =>
        /\ Len(stages) = 1 =>
              /\ stages[1].hideDelete = TRUE
              /\ actors[stages[1].ref].hideDelete = TRUE
        /\ Len(stages) >= 2 =>
              /\ stages[1].hideDelete = FALSE
              /\ actors[stages[1].ref].hideDelete = FALSE

\* C3: STAGE.DELETE on a running bar of exactly one stage leaves one stage,
\* and that stage is blank (no name, no parameters, not submitted) with
\* hideDelete = TRUE; a running bar's list is never empty.
C3_DeleteSoleStageBlanks ==
    [][/\ (Running /\ Len(stages) = 1 /\ last'.type = "STAGE.DELETE") =>
             /\ Len(stages') = 1
             /\ Blank(stages'[1])
             /\ stages'[1].hideDelete = TRUE
       /\ Running' => Len(stages') >= 1]_vars

\* C4: STAGE.COMMIT puts the submitted payload's data fields into the entry at
\* position stage.index and keeps that entry's actor reference; the length,
\* every other entry and the set of spawned actors are unchanged.
C4_CommitFrame ==
    [][last'.type = "STAGE.COMMIT" =>
          LET i == last'.index + 1
              payload == actors'[last'.from]
          IN /\ Len(stages') = Len(stages)
             /\ DOMAIN actors' = DOMAIN actors
             /\ \A j \in 1..Len(stages) : j # i => stages'[j] = stages[j]
             /\ i <= Len(stages) =>
                   /\ RefOf(stages'[i]) = RefOf(stages[i])
                   /\ \A f \in DataFields : stages'[i][f] = payload[f]]_vars

\* C4 witness: a commit of a filled-in draft has landed in a bar of two stages
C4_Witness ==
    /\ Running /\ last.type = "STAGE.COMMIT" /\ ~last.threw
    /\ Len(stages) = 2
    /\ stages[last.index + 1].stage = "match"
    /\ stages[last.index + 1].submitted

\* a read returns the written mapping: same keys, same field values
SameMapping(read, written) ==
    /\ DOMAIN read = DOMAIN written
    /\ \A k \in DOMAIN written : \A f \in DOMAIN written[k] :
          Has(read[k], f) /\ read[k][f] = written[k][f]

\* C5: reading selectedLabels right after writing a mapping M returns a
\* mapping with the key set and the field values of M.
C5_SelectedLabelsRoundTrip ==
    (labelsOp.op = "get" /\ labelsOp.wrote) => SameMapping(labelsRead, labelsOp.written)

\* the server response an atom's value comes from
Origin(atom) ==
    IF atom \in {"sampleFields", "frameFields"} THEN root[atom].collapsed.of
    ELSE root[atom].of

\* C6: view, viewCls, sampleFields and frameFields of the root snapshot always
\* come from one and the same server response.
C6_NoTornSnapshot ==
    \A a \in {"viewCls", "sampleFields", "frameFields"} : Origin(a) = Origin("view")

\* C6 witness: a second commit's response has been applied while another
\* commit is still in flight
C6_Witness ==
    /\ viewOp.op = "completed" /\ Origin("view") = 2 /\ Origin("frameFields") = 2
    /\ inflight # {}

\* C7: no stage actor is spawned while the catalog is undefined: every
\* spawned actor was constructed with the fetched catalog.
C7_SpawnAfterCatalog ==
    \A r \in DOMAIN actors : actors[r].stageInfo # undefined

C9_AddInserts ==
    [][(Running /\ last'.type = "STAGE.ADD") =>
          LET i == last'.index
              n == Len(stages)
          IN /\ Len(stages') = n + 1
             /\ Blank(stages'[i + 1])
             /\ stages'[i + 1].focusOnInit = TRUE
             /\ stages'[i + 1].hideDelete = FALSE
             /\ stages'[i + 1].ref \in DOMAIN actors' \ DOMAIN actors
             /\ \A j \in 1..n :
                   LET k == IF j <= i THEN j ELSE j + 1
                   IN /\ stages'[k].id = stages[j].id
                      /\ stages'[k].ref = stages[j].ref
                      /\ stages'[k].index = k - 1
             /\ stages'[1].hideDelete = FALSE]_vars

\* C10: STAGE.DELETE {stage} on a running bar of n >= 2 stages gives the n-1
\* other stages in their previous order, and the first remaining stage has
\* hideDelete = TRUE iff n-1 = 1.
C10_DeleteRemoves ==
    [][(Running /\ Len(stages) >= 2 /\ last'.type = "STAGE.DELETE") =>
          LET n == Len(stages)
              id == actors[last'.from].id
          IN /\ Len(stages') = n - 1
             /\ stages' = SelectSeq(stages, LAMBDA s : s.id # id)
             /\ stages'[1].hideDelete = (n - 1 = 1)]_vars

\* C11: when a commit fails, onError receives its error, the four root atoms
\* are unchanged and the commit is not sent again.
C11_FailureDelegated ==
    [][viewOp'.op = "error" =>
          /\ viewOp'.n \in handled' \ handled
          /\ root' = root
          /\ issued' = issued
          /\ inflight' \subseteq inflight
          /\ \A req \in inflight' : req.n # viewOp'.n]_vars

\* C11 witness: a commit has failed after an earlier one had been applied
C11_Witness ==
    /\ viewOp.op = "error" /\ viewOp.n \in handled
    /\ Origin("view") # 0 /\ Origin("view") # viewOp.n

\* C12: the fiftyone projection never resolves with a null or empty value: it
\* resolves only with a response that is neither null nor empty.
C12_NeverResolvesEmpty ==
    poll.pc = "done" => Truthy(poll.response)

\* C16: writing v to anyTagging sets all four tagging flags to v and changes
\* nothing else; reading it returns true iff at least one flag is true, so a
\* read immediately after writing v returns v.
C16_AnyTaggingFanOut ==
    [][/\ (tagOp' # tagOp /\ tagOp'.op = "set") =>
             /\ \A modal \in BOOLEAN, labels \in BOOLEAN :
                    tagging'[<<modal, labels>>] = tagOp'.value
             /\ UNCHANGED <<tagRead, dataset, looked, poll>>
             /\ UNCHANGED <<barVars, labelVars, viewVars, colorVars>>
       /\ tagOp'.op = "get" =>
             /\ tagRead' = (\E modal \in BOOLEAN, labels \in BOOLEAN :
                               tagging[<<modal, labels>>])
             /\ tagging' = tagging
       /\ (tagOp.op = "set" /\ tagOp'.op = "get") => tagRead' = tagOp.value]_vars

\* C16 witness: anyTagging was read as true right after true was written to it
C16_Witness ==
    /\ tagOp = [op |-> "get", value |-> TRUE]
    /\ tagRead = TRUE
    /\ \A k \in TaggingKeys : tagging[k]

\* C17: a lookup returns the entry of the field's override mapping when the
\* field has one, and the entry of the dataset-wide default mapping otherwise.
C17_OverrideThenDefault ==
    looked.field # "" =>
        LET overrides == IF "maskTargets" \in DOMAIN dataset
                         THEN dataset["maskTargets"] ELSE EmptyObj
            defaults == IF "defaultMaskTargets" \in DOMAIN dataset
                        THEN dataset["defaultMaskTargets"] ELSE EmptyObj
            mapping == IF looked.field \in DOMAIN overrides
                       THEN overrides[looked.field] ELSE defaults
        IN looked.result = IF looked.target \in DOMAIN mapping
                           THEN mapping[looked.target] ELSE undefined

\* C17 witness: a field with an override was looked up for a target the
\* default mapping also has, and the result is not the default's entry
C17_Witness ==
    /\ looked.field # ""
    /\ Has(targets(dataset).fields, looked.field)
    /\ Has(targets(dataset).defaults, looked.target)
    /\ looked.result # targets(dataset).defaults[looked.target]

\* C13: when the fetch succeeds on a bar constructed with n > 0 stage names,
\* the bar is running with the same n stages in order, each with an actor of
\* its own, index equal to its position, the catalog, focusOnInit FALSE and
\* hideDelete TRUE.
C13_NamedBarMaterialized ==
    [][(invoke = "pending" /\ last'.type = "done.invoke" /\ Len(stages) > 0) =>
          /\ state' = "running"
          /\ stageInfo' = Catalog
          /\ Len(stages') = Len(stages)
          /\ \A i \in 1..Len(stages) :
                /\ ~IsRaw(stages'[i])
                /\ stages'[i].stage = stages[i].str
                /\ stages'[i].index = i - 1
                /\ stages'[i].stageInfo = Catalog
                /\ stages'[i].focusOnInit = FALSE
                /\ stages'[i].hideDelete = TRUE
                /\ stages'[i].ref \in DOMAIN actors' \ DOMAIN actors
          /\ \A i, j \in 1..Len(stages) : i # j => stages'[i].ref # stages'[j].ref]_vars

\* C14: a failed descriptor fetch changes nothing in the bar, and from then on
\* the bar is in initializing with stageInfo undefined: it never enters
\* running, and the failure spawns no actor and leaves the stage list alone.
C14_FetchFailureUnhandled ==
    [][invoke' = "failed" =>
          /\ state' = "initializing"
          /\ stageInfo' = undefined
          /\ invoke = "pending" =>
                /\ last'.type = "error.platform"
                /\ stages' = stages
                /\ actors' = actors]_vars

\* C14 witness: the fetch has failed and the bar is still initializing
C14_Witness ==
    /\ invoke = "failed" /\ last.type = "error.platform"
    /\ state = "initializing" /\ stageInfo = undefined /\ actors = <<>>

\* C15: every write to selectedLabels appends exactly one set_selected_labels
\* message whose payload lists the written mapping, one entry per key with the
\* label's data and its key as label_id, and stores that same list in the
\* state description; a read sends nothing.
C15_WriteNotifiesOnce ==
    [][/\ (labelsOp'.op = "set" /\ labelVars' # labelVars) =>
             /\ Len(socket') = Len(socket) + 1
             /\ SubSeq(socket', 1, Len(socket)) = socket
             /\ socket'[Len(socket')].type = "set_selected_labels"
             /\ LET list == socket'[Len(socket')].args.selected_labels
                    written == labelsOp'.written
                IN /\ Len(list) = Cardinality(DOMAIN written)
                   /\ \A k \in DOMAIN written : \E i \in 1..Len(list) :
                         /\ list[i]["label_id"] = k
                         /\ \A f \in DOMAIN written[k] \ {"label_id"} :
                               Has(list[i], f) /\ list[i][f] = written[k][f]
                   /\ Has(stateDescription', "selected_labels")
                   /\ stateDescription'["selected_labels"] = list
       /\ (labelsOp'.op = "get" /\ labelVars' # labelVars) => socket' = socket]_vars

\* C15 witness: a mapping of two labels was written after an earlier write
C15_Witness ==
    /\ labelsOp.op = "set" /\ Len(socket) = 2
    /\ Cardinality(DOMAIN labelsOp.written) = 2
    /\ Has(stateDescription, "selected_labels")
    /\ socket[2].args.selected_labels = stateDescription["selected_labels"]
    /\ Len(stateDescription["selected_labels"]) = 2

\* C18: a STAGE.COMMIT sent by a listed stage, carrying the index the stage
\* was created with, targets a position inside the list, overwrites the entry
\* that holds the sender's id and leaves the ids in the list pairwise distinct.
C18_CommitHitsOwnEntry ==
    [][last'.type = "STAGE.COMMIT" =>
          LET i == last'.index + 1
              sender == actors'[last'.from]
          IN /\ i \in 1..Len(stages)
             /\ IdOf(stages[i]) = sender.id
             /\ \A j, k \in 1..Len(stages') :
                   j # k => IdOf(stages'[j]) # IdOf(stages'[k])]_vars

\* C19: once every commit issued through the callback has completed, the
\* root's view is the response to the commit issued last, whatever order the
\* responses came in; and an updater given while the previous commit is still
\* in flight is applied to that commit's view.
C19_LaterCommitWins ==
    [][/\ (issued' > 0 /\ inflight' = {} /\ handled' = {}) =>
             root'.view.of = issued'
       /\ (viewOp'.op = "commit-updater" /\ issued' = issued + 1) =>
             \A prev \in inflight : prev.n = issued =>
                \E req \in inflight' :
                   /\ req.n = issued'
                   /\ Len(req.view) = Len(prev.view) + 1
                   /\ SubSeq(req.view, 1, Len(prev.view)) = prev.view]_vars

\* C20: showPicker is as long as labelColors and flag i is the flag of row i:
\* it is set exactly when the picker of the pair in row i is the one opened.
C20_PickerFollowsRow ==
    /\ Len(showPicker) = Len(labelColors)
    /\ \A i \in 1..Len(labelColors) : showPicker[i] <=> labelColors[i].id \in pickerOf

====
